---- MODULE Spec2Model ----
(***************************************************************************)
(* Model of the CLAIM_WINNINGS action (src/actions/claimWinningsAction.ts) *)
(* of the prediction agent: the paginated settlement read, the eligibility *)
(* evaluation (areAllConditionsSettled, didPredictorWin, getClaimableInfo),*)
(* the sequential claim loop and the summary handed to the callback.       *)
(*                                                                         *)
(* Strings the code computes with (addresses, decimal amounts, formatted   *)
(* ether values) are sequences of one-character strings, so that           *)
(* toLowerCase, BigInt and formatEther are computed, not assumed.          *)
(***************************************************************************)
EXTENDS Integers, Sequences, FiniteSets, TLC

VARIABLES
    wallet,             \* getWalletAddress()
    index,              \* content of the external settlement index (active positions of the wallet)
    pc,                 \* position of the handler
    positions,          \* handler: positions accumulated by the paging loop
    skip,               \* handler: offset of the next page request
    requested,          \* offsets of the page requests issued so far, in order
    responses,          \* what each page request came back with, in order
    claimablePositions, \* handler: positions that passed getClaimableInfo
    winningPositions,   \* handler: claimablePositions with isWinner
    losingPositions,    \* handler: claimablePositions without isWinner
    totalWinnings,      \* handler: sum of the winnings of winningPositions
    results,            \* handler: per-position claim results
    inFlight,           \* the claim transaction awaiting submitTransaction, or NoTx
    submitted,          \* winning entries handed to submitTransaction, in order
    outcomes,           \* what really happened to each claim attempt, in order
    delivered,          \* payloads handed to the callback, in order
    probe               \* evaluator harness: input position and the three functions' values

vars == <<wallet, index, pc, positions, skip, requested, responses, claimablePositions,
          winningPositions, losingPositions, totalWinnings, results, inFlight,
          submitted, outcomes, delivered, probe>>

-----------------------------------------------------------------------------
(* Bounds of the model *)

MaxLegs == 2        \* legs per position in the evaluator harness
MaxHead == 3        \* hand-picked positions at the front of the index
MaxLiveHead == 2    \* hand-picked positions at the front of the index, termination runs
MaxBigHead == 1     \* hand-picked positions at the front of an index of several pages
MaxFullPages == 3   \* full pages the index can hold in front of its last page

-----------------------------------------------------------------------------
(* Values *)

Null == <<"null">>                  \* null / undefined where a string is expected
NullCondition == [null |-> TRUE]    \* prediction.condition == null
NullInfo == [null |-> TRUE]         \* getClaimableInfo(...) == null
NoTx == [null |-> TRUE]             \* no transaction in flight
Undefined == <<"undefined">>        \* property absent from a claim result

DigitChars == <<"0", "1", "2", "3", "4", "5", "6", "7", "8", "9">>

Min(a, b) == IF a < b THEN a ELSE b

\* String.prototype.toLowerCase on the letters the model's addresses use
ToLowerChar(c) ==
    CASE c = "A" -> "a"
      [] c = "B" -> "b"
      [] c = "C" -> "c"
      [] c = "D" -> "d"
      [] OTHER -> c

toLowerCase(s) == [i \in 1..Len(s) |-> ToLowerChar(s[i])]

\* a || b on strings: null, undefined and "" are falsy
OrElse(a, b) == IF a = Null \/ a = Undefined \/ a = <<>> THEN b ELSE a

DigitValue(c) == CHOOSE d \in 0..9 : DigitChars[d + 1] = c

\* BigInt(decimalString): most significant digit first; BigInt("") is 0n
RECURSIVE BigInt(_)
BigInt(s) ==
    IF s = <<>> THEN 0
    ELSE 10 * BigInt(SubSeq(s, 1, Len(s) - 1)) + DigitValue(s[Len(s)])

\* (non-negative bigint).toString()
RECURSIVE NatToString(_)
NatToString(n) ==
    IF n < 10 THEN <<DigitChars[n + 1]>>
    ELSE Append(NatToString(n \div 10), DigitChars[(n % 10) + 1])

ETHER_DECIMALS == 18

RECURSIVE PadStart(_, _)
PadStart(s, n) == IF Len(s) >= n THEN s ELSE PadStart(<<"0">> \o s, n)

RECURSIVE StripTrailingZeros(_)
StripTrailingZeros(s) ==
    IF s # <<>> /\ s[Len(s)] = "0" THEN StripTrailingZeros(SubSeq(s, 1, Len(s) - 1))
    ELSE s

\* viem formatEther(value) = formatUnits(value, 18)
formatEther(value) ==
    LET negative == value < 0
        display  == PadStart(NatToString(IF negative THEN -value ELSE value), ETHER_DECIMALS)
        integer  == SubSeq(display, 1, Len(display) - ETHER_DECIMALS)
        fraction == StripTrailingZeros(SubSeq(display, Len(display) - ETHER_DECIMALS + 1, Len(display)))
    IN  (IF negative THEN <<"-">> ELSE <<>>)
        \o (IF integer = <<>> THEN <<"0">> ELSE integer)
        \o (IF fraction = <<>> THEN <<>> ELSE <<".">> \o fraction)

-----------------------------------------------------------------------------
(* EligibilityEvaluator *)

\* didPredictorWin with "some" in place of "every" (one matching leg wins)
didPredictorWin_AnyLeg(position) ==
    IF Len(position.predictions) = 0 THEN FALSE
    ELSE \E i \in 1..Len(position.predictions) :
            LET pred == position.predictions[i] IN
            IF pred.condition = NullCondition \/ ~pred.condition.settled THEN FALSE
            ELSE pred.outcomeYes = pred.condition.resolvedToYes

areAllConditionsSettled(position) ==
    IF Len(position.predictions) = 0 THEN FALSE
    ELSE \A i \in 1..Len(position.predictions) :
            LET pred == position.predictions[i] IN
            pred.condition # NullCondition /\ pred.condition.settled = TRUE

didPredictorWin(position) ==
    IF Len(position.predictions) = 0 THEN FALSE
    ELSE \A i \in 1..Len(position.predictions) :
            LET pred == position.predictions[i] IN
            IF pred.condition = NullCondition \/ ~pred.condition.settled THEN FALSE
            ELSE pred.outcomeYes = pred.condition.resolvedToYes

marketNameOf(position) ==
    LET first == IF Len(position.predictions) = 0 THEN NullCondition
                 ELSE position.predictions[1].condition
        shortName == IF first = NullCondition THEN Undefined ELSE first.shortName
        question  == IF first = NullCondition \/ first.question = Null THEN Undefined
                     ELSE SubSeq(first.question, 1, Min(50, Len(first.question)))
    IN  OrElse(shortName, OrElse(question, <<"Position #">> \o NatToString(position.id)))

\* getClaimableInfo without the check of lines 190-192
getClaimableInfo_NoSettledGate(position, walletAddress) ==
    LET addr == toLowerCase(walletAddress)
        isPredictor == toLowerCase(position.predictor) = addr
        isCounterparty == toLowerCase(position.counterparty) = addr
    IN  IF ~isPredictor /\ ~isCounterparty THEN NullInfo
        ELSE IF position.status # "active" THEN NullInfo
        ELSE
            LET predictorWon == didPredictorWin(position)
                isWinner == (isPredictor /\ predictorWon) \/ (isCounterparty /\ ~predictorWon)
                totalCollateral == BigInt(position.totalCollateral)
                userCollateral ==
                    IF isPredictor THEN BigInt(OrElse(position.predictorCollateral, <<"0">>))
                    ELSE BigInt(OrElse(position.counterpartyCollateral, <<"0">>))
            IN  [tokenId |-> IF isPredictor THEN position.predictorNftTokenId
                             ELSE position.counterpartyNftTokenId,
                 isWinner |-> isWinner,
                 winnings |-> IF isWinner THEN totalCollateral - userCollateral ELSE 0,
                 marketName |-> marketNameOf(position)]

\* getClaimableInfo with the operands of line 204 swapped
getClaimableInfo_StakeMinusTotal(position, walletAddress) ==
    LET addr == toLowerCase(walletAddress)
        isPredictor == toLowerCase(position.predictor) = addr
        isCounterparty == toLowerCase(position.counterparty) = addr
    IN  IF ~isPredictor /\ ~isCounterparty THEN NullInfo
        ELSE IF position.status # "active" THEN NullInfo
        ELSE IF ~areAllConditionsSettled(position) THEN NullInfo
        ELSE
            LET predictorWon == didPredictorWin(position)
                isWinner == (isPredictor /\ predictorWon) \/ (isCounterparty /\ ~predictorWon)
                totalCollateral == BigInt(position.totalCollateral)
                userCollateral ==
                    IF isPredictor THEN BigInt(OrElse(position.predictorCollateral, <<"0">>))
                    ELSE BigInt(OrElse(position.counterpartyCollateral, <<"0">>))
            IN  [tokenId |-> IF isPredictor THEN position.predictorNftTokenId
                             ELSE position.counterpartyNftTokenId,
                 isWinner |-> isWinner,
                 winnings |-> IF isWinner THEN userCollateral - totalCollateral ELSE 0,
                 marketName |-> marketNameOf(position)]

\* getClaimableInfo with line 196 reduced to the predictor's result, whoever asks
getClaimableInfo_WinnerIgnoresSide(position, walletAddress) ==
    LET addr == toLowerCase(walletAddress)
        isPredictor == toLowerCase(position.predictor) = addr
        isCounterparty == toLowerCase(position.counterparty) = addr
    IN  IF ~isPredictor /\ ~isCounterparty THEN NullInfo
        ELSE IF position.status # "active" THEN NullInfo
        ELSE IF ~areAllConditionsSettled(position) THEN NullInfo
        ELSE
            LET predictorWon == didPredictorWin(position)
                isWinner == predictorWon
                totalCollateral == BigInt(position.totalCollateral)
                userCollateral ==
                    IF isPredictor THEN BigInt(OrElse(position.predictorCollateral, <<"0">>))
                    ELSE BigInt(OrElse(position.counterpartyCollateral, <<"0">>))
            IN  [tokenId |-> IF isPredictor THEN position.predictorNftTokenId
                             ELSE position.counterpartyNftTokenId,
                 isWinner |-> isWinner,
                 winnings |-> IF isWinner THEN totalCollateral - userCollateral ELSE 0,
                 marketName |-> marketNameOf(position)]

getClaimableInfo(position, walletAddress) ==
    LET addr == toLowerCase(walletAddress)
        isPredictor == toLowerCase(position.predictor) = addr
        isCounterparty == toLowerCase(position.counterparty) = addr
    IN  IF ~isPredictor /\ ~isCounterparty THEN NullInfo
        ELSE IF position.status # "active" THEN NullInfo
        ELSE IF ~areAllConditionsSettled(position) THEN NullInfo
        ELSE
            LET predictorWon == didPredictorWin(position)
                isWinner == (isPredictor /\ predictorWon) \/ (isCounterparty /\ ~predictorWon)
                totalCollateral == BigInt(position.totalCollateral)
                userCollateral ==
                    IF isPredictor THEN BigInt(OrElse(position.predictorCollateral, <<"0">>))
                    ELSE BigInt(OrElse(position.counterpartyCollateral, <<"0">>))
                winnings == IF isWinner THEN totalCollateral - userCollateral ELSE 0
                tokenId == IF isPredictor THEN position.predictorNftTokenId
                           ELSE position.counterpartyNftTokenId
            IN  [tokenId |-> tokenId, isWinner |-> isWinner, winnings |-> winnings,
                 marketName |-> marketNameOf(position)]

-----------------------------------------------------------------------------
(* Positions the external index can return *)

PAGE_SIZE == 100

Settled(outcomeYes, resolvedToYes) ==
    [outcomeYes |-> outcomeYes,
     condition |-> [settled |-> TRUE, resolvedToYes |-> resolvedToYes,
                    shortName |-> <<"B", "T", "C">>, question |-> Null]]

Unsettled(outcomeYes) ==
    [outcomeYes |-> outcomeYes,
     condition |-> [settled |-> FALSE, resolvedToYes |-> FALSE,
                    shortName |-> Null, question |-> <<"E", "T", "H", "?">>]]

HandlerWallet == <<"a", "b">>
Other == <<"c", "d">>
ValidRefCode == <<"0", "x", "r", "e", "f">>
BadRefCode == <<"b", "a", "d">>     \* not 32 bytes of hex: encodeFunctionData throws

Template(predictor, counterparty, status, refCode, pStake, cStake, legs) ==
    [id |-> 0, predictor |-> predictor, counterparty |-> counterparty,
     predictorNftTokenId |-> <<"0">>, counterpartyNftTokenId |-> <<"0">>,
     totalCollateral |-> <<"1", "0", "0">>,
     predictorCollateral |-> pStake, counterpartyCollateral |-> cStake,
     refCode |-> refCode, status |-> status, predictions |-> legs]

\* the kinds of position put at the front of the index
WinAsPredictor ==
    Template(<<"A", "b">>, Other, "active", Null, <<"4", "0">>, <<"6", "0">>,
             <<Settled(TRUE, TRUE)>>)
WinAsCounterparty ==
    Template(Other, <<"a", "B">>, "active", ValidRefCode, <<"3", "0">>, <<"7", "0">>,
             <<Settled(TRUE, TRUE), Settled(TRUE, FALSE)>>)
WinBadRefCode ==
    Template(HandlerWallet, Other, "active", BadRefCode, <<"2", "0">>, <<"8", "0">>,
             <<Settled(FALSE, FALSE)>>)
LoseAsPredictor ==
    Template(HandlerWallet, Other, "active", Null, <<"5", "0">>, <<"5", "0">>,
             <<Settled(TRUE, FALSE)>>)
NotSettled ==
    Template(HandlerWallet, Other, "active", Null, <<"5", "0">>, <<"5", "0">>,
             <<Settled(TRUE, TRUE), Unsettled(TRUE)>>)
NotOwned ==
    Template(Other, <<"c", "D">>, "active", Null, <<"5", "0">>, <<"5", "0">>,
             <<Settled(TRUE, TRUE)>>)

Templates == {WinAsPredictor, WinAsCounterparty, WinBadRefCode, LoseAsPredictor,
              NotSettled, NotOwned}

\* the index gives every position its own id and its own pair of tokens
Stored(template, i) ==
    [template EXCEPT !.id = i,
                     !.predictorNftTokenId = NatToString(2 * i - 1),
                     !.counterpartyNftTokenId = NatToString(2 * i)]

Heads == UNION {[1..n -> Templates] : n \in 0..MaxHead}

Remainders == {0, 37}
IndexSizes == {k * PAGE_SIZE + r : k \in 0..MaxFullPages, r \in Remainders}

IndexOf(head, n) ==
    [i \in 1..n |-> Stored(IF i <= Len(head) THEN head[i] ELSE NotSettled, i)]

\* positions(take: PAGE_SIZE, skip: skip) of an index that does not change
PageAt(offset) == SubSeq(index, offset + 1, Min(offset + PAGE_SIZE, Len(index)))

-----------------------------------------------------------------------------
(* Values of the handler *)

Truthy(s) == s # Null /\ s # Undefined /\ s # <<>>
Field(r, f) == IF f \in DOMAIN r THEN r[f] ELSE Undefined

NoProbe == [null |-> TRUE]

FetchFailures == {"notOk", "errors", "transport", "noData"}

\* error.message of what graphqlRequest or line 282 throws
FetchMessage(kind) ==
    CASE kind = "notOk" -> <<"GraphQL request failed">>
      [] kind = "errors" -> <<"GraphQL error">>
      [] kind = "transport" -> <<"fetch failed">>
      [] kind = "noData" -> <<"Cannot read properties of undefined">>

FailurePayload(message) ==
    [text |-> <<"Failed to claim winnings">> \o message,
     content |-> [success |-> FALSE, action |-> "CLAIM_WINNINGS", error |-> message]]

Entry(position, info) ==
    [position |-> position, tokenId |-> info.tokenId, isWinner |-> info.isWinner,
     winnings |-> info.winnings, marketName |-> info.marketName]

\* ClaimableOf leaving the loop at the first position that is not claimable
ClaimableOf_StopAtFirstRejected(ps, walletAddress) ==
    LET Rejected(i) == getClaimableInfo(ps[i], walletAddress) = NullInfo
    IN  SelectSeq([i \in 1..Len(ps) |->
                      IF \E k \in 1..i : Rejected(k) THEN NullInfo
                      ELSE Entry(ps[i], getClaimableInfo(ps[i], walletAddress))],
                  LAMBDA pushed : pushed # NullInfo)

\* the loop of lines 311-322
ClaimableOf(ps, walletAddress) ==
    SelectSeq([i \in 1..Len(ps) |->
                  IF getClaimableInfo(ps[i], walletAddress) = NullInfo THEN NullInfo
                  ELSE Entry(ps[i], getClaimableInfo(ps[i], walletAddress))],
              LAMBDA pushed : pushed # NullInfo)

RECURSIVE SumWinnings(_)
SumWinnings(entries) ==
    IF entries = <<>> THEN 0
    ELSE SumWinnings(SubSeq(entries, 1, Len(entries) - 1)) + entries[Len(entries)].winnings

EncodeThrows(entry) == entry.position.refCode = BadRefCode

TxHashOf(entry) == <<"0", "x">> \o entry.tokenId

HandlerInit ==
    /\ positions = <<>>
    /\ skip = 0
    /\ requested = <<>>
    /\ responses = <<>>
    /\ claimablePositions = <<>>
    /\ winningPositions = <<>>
    /\ losingPositions = <<>>
    /\ totalWinnings = 0
    /\ results = <<>>
    /\ inFlight = NoTx
    /\ submitted = <<>>
    /\ outcomes = <<>>
    /\ delivered = <<>>

Init ==
    /\ wallet = HandlerWallet
    /\ \E head \in Heads :
          \E n \in {Len(head)} \cup (IF Len(head) <= MaxBigHead THEN IndexSizes ELSE {}) :
             /\ n >= Len(head)
             /\ index = IndexOf(head, n)
    /\ pc = "request"
    /\ HandlerInit
    /\ probe = NoProbe

-----------------------------------------------------------------------------
(* SettlementReader: the paging loop of the handler *)

Deliver(payload) == delivered' = Append(delivered, payload)

\* line 272: graphqlRequest(..., {take: PAGE_SIZE, skip}) is issued and awaited
RequestPage ==
    /\ pc = "request"
    /\ requested' = Append(requested, skip)
    /\ pc' = "awaitPage"
    /\ UNCHANGED <<wallet, index, positions, skip, responses, claimablePositions, winningPositions,
                   losingPositions, totalWinnings, results, inFlight, submitted,
                   outcomes, delivered, probe>>

\* ReceivePage with the break of line 284 taken on page.length <= PAGE_SIZE
ReceivePage_StopOnFull ==
    /\ pc = "awaitPage"
    /\ \E hasPositions \in BOOLEAN :
          LET page == IF hasPositions THEN PageAt(skip) ELSE <<>> IN
          /\ positions' = positions \o page
          /\ responses' = Append(responses, IF hasPositions THEN "page" ELSE "noPositions")
          /\ IF Len(page) <= PAGE_SIZE
                THEN pc' = "read" /\ skip' = skip
                ELSE pc' = "request" /\ skip' = skip + PAGE_SIZE
    /\ UNCHANGED <<wallet, index, requested, claimablePositions, winningPositions,
                   losingPositions, totalWinnings, results, inFlight, submitted,
                   outcomes, delivered, probe>>

\* ReceivePage with line 285 advancing by PAGE_SIZE - 1: successive pages overlap
ReceivePage_Overlap ==
    /\ pc = "awaitPage"
    /\ \E hasPositions \in BOOLEAN :
          LET page == IF hasPositions THEN PageAt(skip) ELSE <<>> IN
          /\ positions' = positions \o page
          /\ responses' = Append(responses, IF hasPositions THEN "page" ELSE "noPositions")
          /\ IF Len(page) < PAGE_SIZE
                THEN pc' = "read" /\ skip' = skip
                ELSE pc' = "request" /\ skip' = skip + PAGE_SIZE - 1
    /\ UNCHANGED <<wallet, index, requested, claimablePositions, winningPositions,
                   losingPositions, totalWinnings, results, inFlight, submitted,
                   outcomes, delivered, probe>>

\* lines 282-285: the response carries data; a response without a positions
\* field counts as an empty page
ReceivePage ==
    /\ pc = "awaitPage"
    /\ \E hasPositions \in BOOLEAN :
          LET page == IF hasPositions THEN PageAt(skip) ELSE <<>> IN
          /\ positions' = positions \o page
          /\ responses' = Append(responses, IF hasPositions THEN "page" ELSE "noPositions")
          /\ IF Len(page) < PAGE_SIZE
                THEN pc' = "read" /\ skip' = skip
                ELSE pc' = "request" /\ skip' = skip + PAGE_SIZE
    /\ UNCHANGED <<wallet, index, requested, claimablePositions, winningPositions,
                   losingPositions, totalWinnings, results, inFlight, submitted,
                   outcomes, delivered, probe>>

\* FailPage with the failure swallowed inside the loop: the pages read so far are used
FailPage_UsePartial ==
    /\ pc = "awaitPage"
    /\ \E kind \in FetchFailures : responses' = Append(responses, kind)
    /\ pc' = "read"
    /\ UNCHANGED <<wallet, index, positions, skip, requested, claimablePositions,
                   winningPositions, losingPositions, totalWinnings, results, inFlight,
                   submitted, outcomes, delivered, probe>>

\* graphqlRequest throws (lines 34-41, or fetch itself), or data is missing
\* (line 282): the handler's catch reports the failure (lines 494-503)
FailPage ==
    /\ pc = "awaitPage"
    /\ \E kind \in FetchFailures :
          /\ responses' = Append(responses, kind)
          /\ Deliver(FailurePayload(FetchMessage(kind)))
    /\ pc' = "done"
    /\ UNCHANGED <<wallet, index, positions, skip, requested, claimablePositions,
                   winningPositions, losingPositions, totalWinnings, results, inFlight,
                   submitted, outcomes, probe>>

-----------------------------------------------------------------------------
(* EligibilityEvaluator as the handler uses it *)

\* lines 289-300
NoActivePositions ==
    /\ pc = "read"
    /\ Len(positions) = 0
    /\ Deliver([text |-> <<"No active positions found">>,
                content |-> [success |-> TRUE, action |-> "CLAIM_WINNINGS",
                             claimableCount |-> 0, totalWinnings |-> <<"0">>]])
    /\ pc' = "done"
    /\ UNCHANGED <<wallet, index, positions, skip, requested, responses, claimablePositions,
                   winningPositions, losingPositions, totalWinnings, results, inFlight,
                   submitted, outcomes, probe>>

\* lines 303-322
FilterClaimable ==
    /\ pc = "read"
    /\ Len(positions) # 0
    /\ claimablePositions' = ClaimableOf(positions, wallet)
    /\ pc' = "filtered"
    /\ UNCHANGED <<wallet, index, positions, skip, requested, responses, winningPositions,
                   losingPositions, totalWinnings, results, inFlight, submitted,
                   outcomes, delivered, probe>>

\* lines 328-340
NoClaimablePositions ==
    /\ pc = "filtered"
    /\ Len(claimablePositions) = 0
    /\ Deliver([text |-> <<"none have all conditions settled yet">>,
                content |-> [success |-> TRUE, action |-> "CLAIM_WINNINGS",
                             activePositions |-> Len(positions),
                             claimableCount |-> 0, totalWinnings |-> <<"0">>]])
    /\ pc' = "done"
    /\ UNCHANGED <<wallet, index, positions, skip, requested, responses, claimablePositions,
                   winningPositions, losingPositions, totalWinnings, results, inFlight,
                   submitted, outcomes, probe>>

\* PartitionWinners without the isWinner test
PartitionWinners_All(entries) == entries

\* line 343
PartitionWinners(entries) == SelectSeq(entries, LAMBDA p : p.isWinner)

\* line 344
PartitionLosers(entries) == SelectSeq(entries, LAMBDA p : ~p.isWinner)

\* lines 342-344
Partition ==
    /\ pc = "filtered"
    /\ Len(claimablePositions) # 0
    /\ winningPositions' = PartitionWinners(claimablePositions)
    /\ losingPositions' = PartitionLosers(claimablePositions)
    /\ pc' = "partitioned"
    /\ UNCHANGED <<wallet, index, positions, skip, requested, responses, claimablePositions,
                   totalWinnings, results, inFlight, submitted, outcomes, delivered, probe>>

\* NoWinningPositions returning without a call of the callback
NoWinningPositions_Silent ==
    /\ pc = "partitioned"
    /\ Len(winningPositions) = 0
    /\ pc' = "done"
    /\ UNCHANGED <<wallet, index, positions, skip, requested, responses, claimablePositions,
                   winningPositions, losingPositions, totalWinnings, results, inFlight,
                   submitted, outcomes, delivered, probe>>

\* lines 350-366
NoWinningPositions ==
    /\ pc = "partitioned"
    /\ Len(winningPositions) = 0
    /\ Deliver([text |-> <<"none are winners">>,
                content |-> [success |-> TRUE, action |-> "CLAIM_WINNINGS",
                             claimableCount |-> Len(claimablePositions),
                             winningCount |-> 0,
                             losingCount |-> Len(losingPositions),
                             totalWinnings |-> <<"0">>]])
    /\ pc' = "done"
    /\ UNCHANGED <<wallet, index, positions, skip, requested, responses, claimablePositions,
                   winningPositions, losingPositions, totalWinnings, results, inFlight,
                   submitted, outcomes, probe>>

-----------------------------------------------------------------------------
(* ClaimOrchestrator *)

\* lines 368-382: the total is computed, then the SDK and viem are loaded
LoadSdk ==
    /\ pc = "partitioned"
    /\ Len(winningPositions) # 0
    /\ totalWinnings' = SumWinnings(winningPositions)
    /\ pc' = "claim"
    /\ UNCHANGED <<wallet, index, positions, skip, requested, responses, claimablePositions,
                   winningPositions, losingPositions, results, inFlight, submitted,
                   outcomes, delivered, probe>>

\* line 375 rejects (the module or loadSdk fails): the handler's catch reports it
LoadSdkFails ==
    /\ pc = "partitioned"
    /\ Len(winningPositions) # 0
    /\ totalWinnings' = SumWinnings(winningPositions)
    /\ Deliver(FailurePayload(<<"Cannot find module">>))
    /\ pc' = "done"
    /\ UNCHANGED <<wallet, index, positions, skip, requested, responses, claimablePositions,
                   winningPositions, losingPositions, results, inFlight, submitted,
                   outcomes, probe>>

\* the entry the for-of loop of line 393 is at
Current == winningPositions[Len(results) + 1]

\* one attempt of the loop body: which winning entry it was for, how it ended
Attempt(outcome) == [winner |-> Len(results) + 1, outcome |-> outcome]

ClaimResult(entry) ==
    [tokenId |-> entry.tokenId, marketName |-> entry.marketName,
     winnings |-> formatEther(entry.winnings)]

WithTxHash(result, hash) ==
    [f \in DOMAIN result \cup {"txHash"} |-> IF f = "txHash" THEN hash ELSE result[f]]

WithError(result, message) ==
    [f \in DOMAIN result \cup {"error"} |-> IF f = "error" THEN message ELSE result[f]]

\* SubmitClaim without the await of line 409: the next call starts while one is pending
SubmitClaim_NoAwait ==
    /\ pc = "claim"
    /\ Len(results) < Len(winningPositions)
    /\ Len(submitted) < Len(winningPositions)
    /\ ~EncodeThrows(Current)
    /\ inFlight' = [tokenId |-> Current.tokenId,
                    refCode |-> OrElse(Current.position.refCode, <<"0", "x", "0">>)]
    /\ submitted' = Append(submitted, Current)
    /\ UNCHANGED <<wallet, index, pc, positions, skip, requested, responses, claimablePositions,
                   winningPositions, losingPositions, totalWinnings, results, outcomes,
                   delivered, probe>>

\* lines 399-418: the call data is encoded and submitTransaction is called
SubmitClaim ==
    /\ pc = "claim"
    /\ Len(results) < Len(winningPositions)
    /\ inFlight = NoTx
    /\ ~EncodeThrows(Current)
    /\ inFlight' = [tokenId |-> Current.tokenId,
                    refCode |-> OrElse(Current.position.refCode, <<"0", "x", "0">>)]
    /\ submitted' = Append(submitted, Current)
    /\ UNCHANGED <<wallet, index, pc, positions, skip, requested, responses, claimablePositions,
                   winningPositions, losingPositions, totalWinnings, results, outcomes,
                   delivered, probe>>

\* lines 403-407 throw before anything is submitted; lines 427-437 record it
EncodeFails ==
    /\ pc = "claim"
    /\ Len(results) < Len(winningPositions)
    /\ inFlight = NoTx
    /\ EncodeThrows(Current)
    /\ results' = Append(results, WithError(ClaimResult(Current), <<"invalid bytes32">>))
    /\ outcomes' = Append(outcomes, Attempt("encodeError"))
    /\ UNCHANGED <<wallet, index, pc, positions, skip, requested, responses, claimablePositions,
                   winningPositions, losingPositions, totalWinnings, inFlight, submitted,
                   delivered, probe>>

\* lines 420-426: submitTransaction resolves, with or without a hash
ClaimReturns ==
    /\ pc = "claim"
    /\ inFlight # NoTx
    /\ \E withHash \in BOOLEAN :
          /\ results' = Append(results,
                WithTxHash(ClaimResult(Current),
                           IF withHash THEN TxHashOf(Current) ELSE Undefined))
          /\ outcomes' = Append(outcomes, Attempt(IF withHash THEN "hash" ELSE "noHash"))
    /\ inFlight' = NoTx
    /\ UNCHANGED <<wallet, index, pc, positions, skip, requested, responses, claimablePositions,
                   winningPositions, losingPositions, totalWinnings, submitted,
                   delivered, probe>>

\* ClaimThrows with a first failure retried instead of recorded
ClaimThrows_RetryOnce ==
    /\ pc = "claim"
    /\ inFlight # NoTx
    /\ \E withMessage \in BOOLEAN :
          /\ outcomes' = Append(outcomes,
                                Attempt(IF withMessage THEN "error" ELSE "errorNoMessage"))
          /\ IF \E i \in 1..Len(outcomes) : outcomes[i].winner = Len(results) + 1
                THEN results' = Append(results,
                        WithError(ClaimResult(Current),
                                  IF withMessage THEN <<"execution reverted">> ELSE Undefined))
                ELSE results' = results
    /\ inFlight' = NoTx
    /\ UNCHANGED <<wallet, index, pc, positions, skip, requested, responses, claimablePositions,
                   winningPositions, losingPositions, totalWinnings, submitted,
                   delivered, probe>>

\* lines 427-438: submitTransaction rejects, with an Error or with a value
\* that has no message
ClaimThrows ==
    /\ pc = "claim"
    /\ inFlight # NoTx
    /\ \E withMessage \in BOOLEAN :
          /\ results' = Append(results,
                WithError(ClaimResult(Current),
                          IF withMessage THEN <<"execution reverted">> ELSE Undefined))
          /\ outcomes' = Append(outcomes,
                                Attempt(IF withMessage THEN "error" ELSE "errorNoMessage"))
    /\ inFlight' = NoTx
    /\ UNCHANGED <<wallet, index, pc, positions, skip, requested, responses, claimablePositions,
                   winningPositions, losingPositions, totalWinnings, submitted,
                   delivered, probe>>

-----------------------------------------------------------------------------
(* ReconciliationReporter *)

\* line 442
successfulClaims == SelectSeq(results, LAMBDA r : Truthy(Field(r, "txHash")))
\* line 443
failedClaims == SelectSeq(results, LAMBDA r : Truthy(Field(r, "error")))

\* lines 445-478
responseText ==
    IF Len(successfulClaims) > 0 /\ Len(failedClaims) = 0
        THEN <<"Winnings Claimed Successfully!", Len(successfulClaims)>>
                \o formatEther(totalWinnings)
    ELSE IF Len(successfulClaims) > 0 /\ Len(failedClaims) > 0
        THEN <<"Partial Success", Len(successfulClaims), Len(failedClaims)>>
    ELSE <<"Failed to Claim Winnings", Len(failedClaims)>>

\* lines 441-493
Summarize ==
    /\ pc = "claim"
    /\ Len(results) = Len(winningPositions)
    /\ Deliver([text |-> responseText,
                content |-> [success |-> Len(successfulClaims) > 0,
                             action |-> "CLAIM_WINNINGS",
                             claimableCount |-> Len(claimablePositions),
                             winningCount |-> Len(winningPositions),
                             losingCount |-> Len(losingPositions),
                             successfulClaims |-> Len(successfulClaims),
                             failedClaims |-> Len(failedClaims),
                             totalWinnings |-> formatEther(totalWinnings),
                             results |-> results]])
    /\ pc' = "done"
    /\ UNCHANGED <<wallet, index, positions, skip, requested, responses, claimablePositions,
                   winningPositions, losingPositions, totalWinnings, results, inFlight,
                   submitted, outcomes, probe>>

Next ==
    \/ RequestPage
    \/ ReceivePage
    \/ FailPage
    \/ NoActivePositions
    \/ FilterClaimable
    \/ NoClaimablePositions
    \/ Partition
    \/ NoWinningPositions
    \/ LoadSdk
    \/ LoadSdkFails
    \/ SubmitClaim
    \/ EncodeFails
    \/ ClaimReturns
    \/ ClaimThrows
    \/ Summarize

Spec == Init /\ [][Next]_vars

LiveHeads == UNION {[1..n -> Templates] : n \in 0..MaxLiveHead}

InitLive ==
    /\ wallet = HandlerWallet
    /\ \E head \in LiveHeads :
          \E n \in {Len(head)} \cup (IF Len(head) <= MaxBigHead THEN IndexSizes ELSE {}) :
             /\ n >= Len(head)
             /\ index = IndexOf(head, n)
    /\ pc = "request"
    /\ HandlerInit
    /\ probe = NoProbe

\* every awaited request, import and submission eventually settles, and the
\* synchronous code between two awaits runs
SpecLive == InitLive /\ [][Next]_vars /\ WF_vars(Next)

-----------------------------------------------------------------------------
(* The evaluator on its own: one position, one wallet, the three functions *)

EvalWallets == {<<"A", "b">>, <<"c", "d">>}
EvalAddresses == {<<"a", "B">>, <<"A", "b">>, <<"c", "d">>}
\* a stake is absent or at most the total collateral (total = predictor's + counterparty's)
EvalStakes == {Null, <<"4", "0">>, <<"6", "0">>, <<"1", "0", "0">>}
EvalStatuses == {"active", "claimed"}

EvalConditions ==
    {NullCondition} \cup
    [settled : BOOLEAN, resolvedToYes : BOOLEAN, shortName : {Null},
     question : {<<"E", "T", "H", "?">>}]

EvalLegs == [outcomeYes : BOOLEAN, condition : EvalConditions]

EvalPositions ==
    [id : {7}, predictor : EvalAddresses, counterparty : EvalAddresses,
     predictorNftTokenId : {<<"1">>}, counterpartyNftTokenId : {<<"2">>},
     totalCollateral : {<<"1", "0", "0">>},
     predictorCollateral : EvalStakes, counterpartyCollateral : EvalStakes,
     refCode : {Null}, status : EvalStatuses,
     predictions : UNION {[1..n -> EvalLegs] : n \in 0..MaxLegs}]

EvalInit ==
    /\ wallet \in EvalWallets
    /\ index = <<>>
    /\ pc = "probe"
    /\ HandlerInit
    /\ \E position \in EvalPositions :
          probe = [position |-> position, evaluated |-> FALSE, settled |-> FALSE,
                   predictorWon |-> FALSE, info |-> NullInfo,
                   asPredictor |-> NullInfo, asCounterparty |-> NullInfo]

Evaluate ==
    /\ pc = "probe"
    /\ probe' = [position |-> probe.position, evaluated |-> TRUE,
                 settled |-> areAllConditionsSettled(probe.position),
                 predictorWon |-> didPredictorWin(probe.position),
                 info |-> getClaimableInfo(probe.position, wallet),
                 asPredictor |-> getClaimableInfo(probe.position, probe.position.predictor),
                 asCounterparty |-> getClaimableInfo(probe.position, probe.position.counterparty)]
    /\ pc' = "probed"
    /\ UNCHANGED <<wallet, index, positions, skip, requested, responses, claimablePositions,
                   winningPositions, losingPositions, totalWinnings, results, inFlight,
                   submitted, outcomes, delivered>>

EvalNext == Evaluate

SpecEval == EvalInit /\ [][EvalNext]_vars

-----------------------------------------------------------------------------
(* Vocabulary of the properties, stated without the evaluator's operators *)

SameLetter(c, d) ==
    \/ c = d
    \/ <<c, d>> \in {<<"a", "A">>, <<"A", "a">>, <<"b", "B">>, <<"B", "b">>,
                     <<"c", "C">>, <<"C", "c">>, <<"d", "D">>, <<"D", "d">>}

SameAddress(a, b) == Len(a) = Len(b) /\ \A i \in 1..Len(a) : SameLetter(a[i], b[i])

LegSettled(leg) == leg.condition # NullCondition /\ leg.condition.settled

AllLegsSettled(p) ==
    Len(p.predictions) >= 1 /\ \A i \in 1..Len(p.predictions) : LegSettled(p.predictions[i])

AllLegsMatch(p) ==
    /\ Len(p.predictions) >= 1
    /\ \A i \in 1..Len(p.predictions) :
          /\ LegSettled(p.predictions[i])
          /\ p.predictions[i].outcomeYes = p.predictions[i].condition.resolvedToYes

PassesGate(p, w) ==
    /\ SameAddress(w, p.predictor) \/ SameAddress(w, p.counterparty)
    /\ p.status = "active"
    /\ AllLegsSettled(p)

CallerWins(p, w) ==
    \/ SameAddress(w, p.predictor) /\ AllLegsMatch(p)
    \/ SameAddress(w, p.counterparty) /\ ~AllLegsMatch(p)

StakeOf(s) == IF s = Null THEN 0 ELSE BigInt(s)

Probed == probe # NoProbe /\ probe.evaluated

IsSummary(payload) == "results" \in DOMAIN payload.content
IsFatal(payload) == "error" \in DOMAIN payload.content

ClaimSucceeded(attempt) == attempt.outcome \in {"hash", "noHash"}
ClaimFailed(attempt) == attempt.outcome \in {"encodeError", "error", "errorNoMessage"}

\* winnings of the winning entries whose claim transaction went through
RECURSIVE RealizedWinnings(_)
RealizedWinnings(n) ==
    IF n = 0 THEN 0
    ELSE RealizedWinnings(n - 1)
         + (IF ClaimSucceeded(outcomes[n]) THEN winningPositions[outcomes[n].winner].winnings
            ELSE 0)

HasValue(r, f) == f \in DOMAIN r /\ r[f] # Undefined /\ r[f] # Null

-----------------------------------------------------------------------------
(* Reporter *)

\* C1: in the summary of a pass that reached claim submission, the reported
\* total winnings is the sum of the winnings of the winning positions whose
\* claim succeeded; a failed claim contributes nothing (all failed: total 0).
C1_TotalCountsOnlySuccessfulClaims ==
    \A i \in 1..Len(delivered) :
        IsSummary(delivered[i]) =>
            delivered[i].content.totalWinnings = formatEther(RealizedWinnings(Len(outcomes)))

-----------------------------------------------------------------------------
(* Orchestrator *)

\* C2: once the claim loop runs, every winning position gets exactly one
\* attempt, whatever the other attempts' outcomes: attempts and results follow
\* the winning positions one for one while the loop runs, nothing is handed to
\* submitTransaction twice, and the summary carries one result per winner.
C2_OneAttemptPerWinner ==
    /\ Len(outcomes) <= Len(winningPositions)
    /\ \A k \in 1..Len(outcomes) : outcomes[k].winner = k
    /\ Len(results) = Len(outcomes)
    /\ \A k \in 1..Len(results) : results[k].tokenId = winningPositions[k].tokenId
    /\ \A i, j \in 1..Len(submitted) : submitted[i] = submitted[j] => i = j
    /\ \A i \in 1..Len(delivered) :
          IsSummary(delivered[i]) =>
              /\ Len(outcomes) = Len(winningPositions)
              /\ Len(delivered[i].content.results) = Len(winningPositions)
              /\ \A k \in 1..Len(winningPositions) :
                    delivered[i].content.results[k].tokenId = winningPositions[k].tokenId

\* a failed first claim is followed by a second claim that succeeds
C2_Witness ==
    /\ pc = "done"
    /\ Len(delivered) = 1 /\ IsSummary(delivered[1])
    /\ Len(winningPositions) >= 2
    /\ outcomes[1].outcome = "error"
    /\ outcomes[2].outcome = "hash"

-----------------------------------------------------------------------------
(* Reader failures *)

QueryFailed ==
    \E i \in 1..Len(responses) : responses[i] \in {"notOk", "errors", "transport"}

\* C3: if the settlement query fails on any page, also on a later page, the
\* pass is aborted: nothing is evaluated or claimed, no transaction is
\* submitted, and the caller gets one top-level failure (success = false, error).
C3_QueryFailureAbortsPass ==
    QueryFailed =>
        /\ pc = "done"
        /\ claimablePositions = <<>>
        /\ winningPositions = <<>>
        /\ results = <<>>
        /\ submitted = <<>>
        /\ inFlight = NoTx
        /\ Len(delivered) = 1
        /\ delivered[1].content.success = FALSE
        /\ IsFatal(delivered[1])
        /\ ~IsSummary(delivered[1])

\* the second page fails after a first page that holds a winning position
C3_Witness ==
    /\ Len(responses) = 2
    /\ responses[1] = "page"
    /\ responses[2] = "errors"
    /\ Len(positions) = PAGE_SIZE
    /\ PassesGate(positions[1], wallet)
    /\ CallerWins(positions[1], wallet)

-----------------------------------------------------------------------------
(* Winners only *)

\* C4: a claim transaction is submitted only for a position that passed the
\* claimable gate and whose caller is the economic winner.
C4_OnlyWinnersSubmitted ==
    /\ \A i \in 1..Len(submitted) :
          /\ PassesGate(submitted[i].position, wallet)
          /\ CallerWins(submitted[i].position, wallet)
          /\ \E k \in 1..Len(positions) : positions[k] = submitted[i].position
    /\ inFlight # NoTx =>
          \E i \in 1..Len(submitted) : submitted[i].tokenId = inFlight.tokenId

\* a winner was submitted in a pass that also saw a loser and an excluded position
C4_Witness ==
    /\ Len(submitted) >= 1
    /\ Len(losingPositions) >= 1
    /\ Len(claimablePositions) < Len(positions)

-----------------------------------------------------------------------------
(* Evaluator *)

\* C5: getClaimableInfo returns a result iff the wallet is the predictor or the
\* counterparty ignoring letter case, the status is "active", and the position
\* has at least one leg and every leg has a condition with settled = true.
C5_ClaimableIffGate ==
    Probed => ((probe.info # NullInfo) <=> PassesGate(probe.position, wallet))

\* claimable although the wallet equals neither address letter for letter
C5_Witness ==
    /\ Probed
    /\ probe.info # NullInfo
    /\ wallet # probe.position.predictor
    /\ wallet # probe.position.counterparty

\* C6: didPredictorWin is true iff the position has at least one leg and every
\* leg's condition is settled and resolved to the leg's predicted outcome.
C6_PredictorWinsIffAllLegsMatch ==
    Probed => (probe.predictorWon <=> AllLegsMatch(probe.position))

\* a two-leg parlay that the predictor wins
C6_Witness ==
    /\ Probed
    /\ probe.predictorWon
    /\ Len(probe.position.predictions) = 2

\* C7: for a claimable position the winnings are totalCollateral minus the
\* predictor's stake for the predictor when all legs match, totalCollateral
\* minus the counterparty's stake for the counterparty when some leg
\* mismatches, and zero for the losing side; an absent stake counts as zero.
C7_WinningsAreTotalMinusOwnStake ==
    (Probed /\ probe.info # NullInfo) =>
        LET p == probe.position
            total == BigInt(p.totalCollateral)
        IN  probe.info.winnings =
                IF SameAddress(wallet, p.predictor) /\ AllLegsMatch(p)
                    THEN total - StakeOf(p.predictorCollateral)
                ELSE IF SameAddress(wallet, p.counterparty) /\ ~AllLegsMatch(p)
                    THEN total - StakeOf(p.counterpartyCollateral)
                ELSE 0

-----------------------------------------------------------------------------
(* Paging *)

ReadReturnedIndex ==
    /\ pc \notin {"request", "awaitPage"}
    /\ \A i \in 1..Len(responses) : responses[i] = "page"

\* C8: the reader stops right after the first page shorter than the page
\* size: for an index of n positions it issues n \div PAGE_SIZE + 1 requests
\* and returns all n positions.
C8_RequestsAndPositions ==
    /\ ReadReturnedIndex =>
          /\ Len(requested) = (Len(index) \div PAGE_SIZE) + 1
          /\ positions = index
    /\ (\A i \in 1..Len(responses) : responses[i] = "page") =>
          \A i \in 1..Len(responses) :
              (i < Len(requested) \/ pc = "request") =>
                  Len(index) - requested[i] >= PAGE_SIZE

\* pages [100, 100, 100]: a fourth request returns the empty page
C8_Witness ==
    /\ ReadReturnedIndex
    /\ Len(index) = 3 * PAGE_SIZE
    /\ Len(requested) = 4
    /\ Len(positions) = 3 * PAGE_SIZE

-----------------------------------------------------------------------------
(* Claim results *)

\* C9: every recorded claim result carries exactly one of a transaction
\* identifier and an error description, for every outcome of the submission.
C9_ExactlyOneOfTxHashAndError ==
    \A k \in 1..Len(results) :
        HasValue(results[k], "txHash") # HasValue(results[k], "error")

-----------------------------------------------------------------------------
(* The four "nothing claimed" results *)

ReaderReturned ==
    /\ pc \notin {"request", "awaitPage"}
    /\ \A i \in 1..Len(responses) : responses[i] \in {"page", "noPositions"}

Claimable == {k \in 1..Len(positions) : PassesGate(positions[k], wallet)}
Winners == {k \in Claimable : CallerWins(positions[k], wallet)}

NoActiveResult(payload) ==
    DOMAIN payload.content = {"success", "action", "claimableCount", "totalWinnings"}
NoClaimableResult(payload) == "activePositions" \in DOMAIN payload.content
NoWinnersResult(payload) ==
    "winningCount" \in DOMAIN payload.content /\ ~IsSummary(payload)
AllFailedResult(payload) ==
    IsSummary(payload) /\ payload.text[1] = "Failed to Claim Winnings"

\* C10: each of the four "nothing claimed" results is delivered under exactly
\* its own condition: (i) the reader returned no position; (ii) positions but
\* none passes the gate; (iii) claimable positions but no winner; (iv) winners
\* whose claims all failed. No transaction is submitted in (i) to (iii).
C10_NothingClaimedReasons ==
    pc = "done" =>
        /\ Len(delivered) = 1
        /\ NoActiveResult(delivered[1]) <=> (ReaderReturned /\ positions = <<>>)
        /\ NoClaimableResult(delivered[1]) <=>
              (ReaderReturned /\ positions # <<>> /\ Claimable = {})
        /\ NoWinnersResult(delivered[1]) <=>
              (ReaderReturned /\ Claimable # {} /\ Winners = {})
        /\ AllFailedResult(delivered[1]) <=>
              /\ ReaderReturned
              /\ Winners # {}
              /\ Len(outcomes) = Cardinality(Winners)
              /\ \A k \in 1..Len(outcomes) : ClaimFailed(outcomes[k])
        /\ (\/ NoActiveResult(delivered[1])
            \/ NoClaimableResult(delivered[1])
            \/ NoWinnersResult(delivered[1])) => submitted = <<>>

-----------------------------------------------------------------------------
(* Abort only during the read *)

ReadFailed == \E i \in 1..Len(responses) : responses[i] \in FetchFailures

\* C11: a top-level failure result (success = false with an error, no
\* per-position results) is delivered only because the settlement read failed;
\* once the read has completed, no later failure aborts the pass.
C11_FatalOnlyFromRead ==
    \A i \in 1..Len(delivered) : IsFatal(delivered[i]) => ReadFailed

-----------------------------------------------------------------------------
(* Sequential submission *)

\* calls of submitTransaction that have not come back yet
PendingSubmissions ==
    Len(submitted) - Cardinality({k \in 1..Len(outcomes) : outcomes[k].outcome # "encodeError"})

\* C12: at most one claim transaction is in flight, the submission for a
\* position starts only after every earlier winner's outcome is recorded, and
\* the results are in the order of the winning positions.
C12_SequentialSubmission ==
    /\ PendingSubmissions \in {0, 1}
    /\ (inFlight # NoTx) <=> (PendingSubmissions = 1)
    /\ inFlight # NoTx =>
          /\ Len(outcomes) = Len(results)
          /\ submitted[Len(submitted)] = winningPositions[Len(results) + 1]
          /\ inFlight.tokenId = winningPositions[Len(results) + 1].tokenId
    /\ Len(results) <= Len(winningPositions)
    /\ \A k \in 1..Len(results) :
          /\ results[k].tokenId = winningPositions[k].tokenId
          /\ results[k].marketName = winningPositions[k].marketName

\* the second winner's transaction is in flight after the first one's result
C12_Witness ==
    /\ inFlight # NoTx
    /\ Len(results) = 1
    /\ Len(submitted) = 2
    /\ Len(winningPositions) >= 2

-----------------------------------------------------------------------------
(* Evaluator: sign of the winnings, no tie, token of the winning side *)

C15_ExactlyOneSideWins ==
    (/\ Probed
     /\ ~SameAddress(probe.position.predictor, probe.position.counterparty)
     /\ probe.position.status = "active"
     /\ AllLegsSettled(probe.position)) =>
        /\ probe.asPredictor # NullInfo
        /\ probe.asCounterparty # NullInfo
        /\ probe.asPredictor.isWinner # probe.asCounterparty.isWinner
        /\ probe.asPredictor.isWinner <=> AllLegsMatch(probe.position)

\* a two-leg parlay with one mismatching leg: the counterparty is the winner
C15_Witness ==
    /\ Probed
    /\ ~SameAddress(probe.position.predictor, probe.position.counterparty)
    /\ Len(probe.position.predictions) = 2
    /\ probe.asPredictor # NullInfo
    /\ ~probe.asPredictor.isWinner
    /\ probe.asCounterparty.isWinner

\* C18: whenever getClaimableInfo reports the caller as the winner, the token
\* it returns is the token of the side that won: the predictor's if every leg
\* matches, otherwise the counterparty's, also when both sides are one address.
C18_TokenOfWinningSide ==
    (Probed /\ probe.info # NullInfo /\ probe.info.isWinner) =>
        probe.info.tokenId =
            IF AllLegsMatch(probe.position) THEN probe.position.predictorNftTokenId
            ELSE probe.position.counterpartyNftTokenId

-----------------------------------------------------------------------------
(* Paging order *)

\* C16: page requests are issued one at a time at offsets 0, P, 2P, ..., so
\* no offset is requested twice; with an index that does not change, no
\* position is returned twice and no token is submitted twice in a pass.
C16_MonotonePagingNoDuplicates ==
    /\ \A i \in 1..Len(requested) : requested[i] = (i - 1) * PAGE_SIZE
    /\ Len(requested) - Len(responses) = (IF pc = "awaitPage" THEN 1 ELSE 0)
    /\ Cardinality({positions[i].id : i \in 1..Len(positions)}) = Len(positions)
    /\ Cardinality({submitted[i].tokenId : i \in 1..Len(submitted)}) = Len(submitted)

\* three pages were read and a token from them was submitted
C16_Witness ==
    /\ Len(requested) = 3
    /\ Len(positions) = 2 * PAGE_SIZE + 37
    /\ Len(submitted) = 1

-----------------------------------------------------------------------------
(* Termination *)

-----------------------------------------------------------------------------
(* Order of the positions *)

\* what a pass holds, without the order it holds it in
PositionSet == {positions[k] : k \in 1..Len(positions)}
ClaimableSet == {p \in PositionSet : PassesGate(p, wallet)}
WinnerSet == {p \in ClaimableSet : CallerWins(p, wallet)}
OutcomeSet == {<<winningPositions[outcomes[n].winner].position, outcomes[n].outcome>> :
                  n \in 1..Len(outcomes)}
WithOutcome(kinds) == {p \in WinnerSet : \E kind \in kinds : <<p, kind>> \in OutcomeSet}

RECURSIVE WinningsOver(_)
WinningsOver(ps) ==
    IF ps = {} THEN 0
    ELSE LET p == CHOOSE q \in ps : TRUE
         IN  getClaimableInfo(p, wallet).winnings + WinningsOver(ps \ {p})

\* C14: the counts and the total of a summary depend on which positions the
\* reader returned and on how the claim of each one ended, not on the order
\* the positions came in: each field is a function of the set of positions and
\* of the set of (position, outcome) pairs.
C14_SummaryIsOrderIndependent ==
    \A i \in 1..Len(delivered) :
        IsSummary(delivered[i]) =>
            LET c == delivered[i].content
            IN  /\ c.claimableCount = Cardinality(ClaimableSet)
                /\ c.winningCount = Cardinality(WinnerSet)
                /\ c.losingCount = Cardinality(ClaimableSet \ WinnerSet)
                /\ c.successfulClaims = Cardinality(WithOutcome({"hash"}))
                /\ c.failedClaims = Cardinality(WithOutcome({"encodeError", "error"}))
                /\ c.totalWinnings = formatEther(WinningsOver(WinnerSet))

\* a summary of a pass whose reader returned a position that is not claimable
\* in front of two winners of different winnings, one claimed and one not
C14_Witness ==
    /\ Len(delivered) = 1 /\ IsSummary(delivered[1])
    /\ \E i, j \in 1..Len(positions) :
          i < j /\ ~PassesGate(positions[i], wallet) /\ PassesGate(positions[j], wallet)
    /\ Len(winningPositions) = 2
    /\ winningPositions[1].winnings # winningPositions[2].winnings
    /\ delivered[1].content.successfulClaims = 1
    /\ delivered[1].content.failedClaims = 1

\* C19: in the summary of a pass that reached claim submission, successful
\* plus failed claims is the number of winning positions, and winning plus
\* losing positions is the number of claimable positions.
C19_CountsAddUp ==
    \A i \in 1..Len(delivered) :
        IsSummary(delivered[i]) =>
            LET c == delivered[i].content
            IN  /\ c.successfulClaims + c.failedClaims = c.winningCount
                /\ c.winningCount + c.losingCount = c.claimableCount

====
